---------------------------- MODULE Spec2Model ----------------------------
(***************************************************************************)
(* State-machine model of src/app.py: the restaurant ordering application. *)
(*                                                                         *)
(* The database rows are the state; every Flask view that changes or      *)
(* reads them is one action, taking the request's inputs (the acting      *)
(* user, the URL parameters, the form) as parameters.  The specifications *)
(* at the end differ only in the requests their environment sends.        *)
(*                                                                         *)
(* Conventions                                                             *)
(*   - a Python string is a sequence of one-character strings;            *)
(*   - an optional value is a sequence: <<>> is None, <<v>> is v;         *)
(*   - money is counted in mills (1/1000 of the currency unit), so that   *)
(*     round(x, 2) is an operation and not the identity;                  *)
(*   - a datetime is a number of clock ticks, TicksPerDay of them a day.  *)
(***************************************************************************)
EXTENDS Integers, Sequences, FiniteSets, TLC

VARIABLES
    now,          \* datetime.utcnow()
    tables,       \* rows of dining_table: id -> [code, name]
    menu,         \* rows of menu_item: id -> [name, price, category, available]
    orders,       \* rows of order, by id (orders are never deleted)
    order_items,  \* rows of order_item, by id (never deleted)
    response,     \* what the last request answered
    sessions      \* the database sessions of the requests in flight

vars == <<now, tables, menu, orders, order_items, response, sessions>>

\* ------------------------------------------------------------- bounds

MaxTime == 2

TicksPerDay == 2

MaxOrders == 2

MaxMenuItems == 5

MaxTables == 4

MaxRequests == 2

Backlog == 11

\* ------------------------------------------------------------ strings

None == <<>>

Some(v) == <<v>>

\* x or d, for an optional x (None is falsy)
OrElse(x, d) == IF x = None THEN d ELSE x[1]

Whitespace == {" "}

Digits == <<"0", "1", "2", "3", "4", "5", "6", "7", "8", "9">>

IsDigit(c) == \E i \in 1..Len(Digits) : Digits[i] = c

DigitValue(c) == (CHOOSE i \in 1..Len(Digits) : Digits[i] = c) - 1

RECURSIVE LStrip(_)
LStrip(s) ==
    IF s # <<>> /\ Head(s) \in Whitespace THEN LStrip(Tail(s)) ELSE s

RECURSIVE RStrip(_)
RStrip(s) ==
    IF s # <<>> /\ s[Len(s)] \in Whitespace
    THEN RStrip(SubSeq(s, 1, Len(s) - 1))
    ELSE s

\* str.strip()
Strip(s) == LStrip(RStrip(s))

LowerCase ==
    <<"a", "b", "c", "d", "e", "f", "g", "h", "i", "j", "k", "l", "m", "n",
      "o", "p", "q", "r", "s", "t", "u", "v", "w", "x", "y", "z">>

UpperCase ==
    <<"A", "B", "C", "D", "E", "F", "G", "H", "I", "J", "K", "L", "M", "N",
      "O", "P", "Q", "R", "S", "T", "U", "V", "W", "X", "Y", "Z">>

UpperOf(c) ==
    IF \E i \in 1..Len(LowerCase) : LowerCase[i] = c
    THEN UpperCase[CHOOSE i \in 1..Len(LowerCase) : LowerCase[i] = c]
    ELSE c

\* str.upper()
Upper(s) == [i \in 1..Len(s) |-> UpperOf(s[i])]

LowerOf(c) ==
    IF \E i \in 1..Len(UpperCase) : UpperCase[i] = c
    THEN LowerCase[CHOOSE i \in 1..Len(UpperCase) : UpperCase[i] = c]
    ELSE c

\* str.lower()
Lower(s) == [i \in 1..Len(s) |-> LowerOf(s[i])]

\* the characters the pattern \w matches: letters, digits and "_"
IsWord(c) ==
    \/ IsDigit(c)
    \/ c = "_"
    \/ \E i \in 1..Len(LowerCase) : LowerCase[i] = c \/ UpperCase[i] = c

\* re.sub(r"\s+", "-", s): every run of whitespace becomes one "-"
RECURSIVE DashWhitespace(_)
DashWhitespace(s) ==
    IF s = <<>> THEN <<>>
    ELSE IF Head(s) \in Whitespace
         THEN <<"-">> \o DashWhitespace(LStrip(s))
         ELSE <<Head(s)>> \o DashWhitespace(Tail(s))

\* re.sub(r"[^\w-]", "", s): only word characters and "-" are kept
RECURSIVE KeepWordAndDash(_)
KeepWordAndDash(s) ==
    IF s = <<>> THEN <<>>
    ELSE IF IsWord(Head(s)) \/ Head(s) = "-"
         THEN <<Head(s)>> \o KeepWordAndDash(Tail(s))
         ELSE KeepWordAndDash(Tail(s))

\* str(n) for a natural number n
RECURSIVE DecimalOf(_)
DecimalOf(n) ==
    IF n < 10 THEN <<Digits[n + 1]>>
    ELSE DecimalOf(n \div 10) \o <<Digits[(n % 10) + 1]>>

RECURSIVE DigitsValue(_, _)
DigitsValue(s, acc) ==
    IF s = <<>> THEN acc ELSE DigitsValue(Tail(s), 10 * acc + DigitValue(Head(s)))

\* int(s) for a str s: surrounding whitespace and one sign are accepted, then
\* one or more digits; anything else raises ValueError.
IntParses(s) ==
    LET t == Strip(s)
        u == IF t # <<>> /\ Head(t) \in {"+", "-"} THEN Tail(t) ELSE t
    IN  u # <<>> /\ \A i \in 1..Len(u) : IsDigit(u[i])

IntValue(s) ==
    LET t == Strip(s)
        neg == t # <<>> /\ Head(t) = "-"
        u == IF t # <<>> /\ Head(t) \in {"+", "-"} THEN Tail(t) ELSE t
    IN  IF neg THEN 0 - DigitsValue(u, 0) ELSE DigitsValue(u, 0)

\* the text before the first "." of s, and the text after it
RECURSIVE BeforeDot(_)
BeforeDot(s) ==
    IF s = <<>> \/ Head(s) = "." THEN <<>> ELSE <<Head(s)>> \o BeforeDot(Tail(s))

AfterDot(s) ==
    IF Len(BeforeDot(s)) = Len(s) THEN <<>>
    ELSE SubSeq(s, Len(BeforeDot(s)) + 2, Len(s))

Unsigned(s) == IF s # <<>> /\ Head(s) \in {"+", "-"} THEN Tail(s) ELSE s

AllDigits(s) == \A i \in 1..Len(s) : IsDigit(s[i])

\* float(s) for a str s written as a plain decimal: surrounding whitespace
\* and one sign are accepted, then digits with at most one "."; the model
\* reads up to three decimals.  Anything else raises ValueError.
FloatParses(s) ==
    LET u == Unsigned(Strip(s))
    IN  /\ AllDigits(BeforeDot(u))
        /\ AllDigits(AfterDot(u))
        /\ Len(BeforeDot(u)) + Len(AfterDot(u)) >= 1
        /\ Len(AfterDot(u)) <= 3

\* the value of float(s), in mills
FloatMills(s) ==
    LET t == Strip(s)
        u == Unsigned(t)
        frac == AfterDot(u) \o SubSeq(<<"0", "0", "0">>, 1, 3 - Len(AfterDot(u)))
        magnitude == 1000 * DigitsValue(BeforeDot(u), 0) + DigitsValue(frac, 0)
    IN  IF t # <<>> /\ Head(t) = "-" THEN 0 - magnitude ELSE magnitude

\* -------------------------------------------------------------- money

\* round(x, 2) of an amount in mills: the nearest multiple of 10 mills, a tie
\* going to the even cent.
Round2(m) ==
    LET q == m \div 10
        r == m % 10
    IN  IF r < 5 THEN 10 * q
        ELSE IF r > 5 THEN 10 * (q + 1)
        ELSE IF q % 2 = 0 THEN 10 * q ELSE 10 * (q + 1)

\* --------------------------------------------------------------- time

\* db.func.date(dt), datetime.date(): the calendar date of a datetime
DateOf(t) == t \div TicksPerDay

\* the characters of the model's strings, in code point order
Alphabet ==
    <<" ", "+", "-", ".", "0", "1", "2", "3", "4", "5", "6", "7", "8", "9",
      "A", "B", "C", "D", "E", "F", "G", "H", "I", "J", "K", "L", "M", "N",
      "O", "P", "Q", "R", "S", "T", "U", "V", "W", "X", "Y", "Z", "_",
      "a", "b", "c", "d", "e", "f", "g", "h", "i", "j", "k", "l", "m", "n",
      "o", "p", "q", "r", "s", "t", "u", "v", "w", "x", "y", "z">>

CodePoints ==
    [c \in {Alphabet[i] : i \in 1..Len(Alphabet)} |->
        CHOOSE i \in 1..Len(Alphabet) : Alphabet[i] = c]

Ord(c) == CodePoints[c]

\* s < t for two strings, as the database orders text (by code point)
RECURSIVE StrLess(_, _)
StrLess(s, t) ==
    IF t = <<>> THEN FALSE
    ELSE IF s = <<>> THEN TRUE
    ELSE IF Ord(Head(s)) # Ord(Head(t)) THEN Ord(Head(s)) < Ord(Head(t))
    ELSE StrLess(Tail(s), Tail(t))

\* ------------------------------------------------------------- models

\* User rows (seed_data creates them; no view changes them): id -> role
Users == (1 :> "admin") @@ (2 :> "staff")

\* STATUS_FLOW
STATUS_FLOW == <<"pending", "preparing", "served", "completed", "paid">>

\* the membership test with a slip: "cancelled" passes too
InStatusFlowOrCancelled(s) ==
    s = "cancelled" \/ \E i \in 1..Len(STATUS_FLOW) : STATUS_FLOW[i] = s

\* status in STATUS_FLOW
InStatusFlow(s) == \E i \in 1..Len(STATUS_FLOW) : STATUS_FLOW[i] = s

\* is_active with a slip: a completed order counts as closed
is_active_until_completed(order) ==
    order.status \notin {"paid", "cancelled", "completed"}

\* Order.is_active
is_active(order) == order.status \notin {"paid", "cancelled"}

\* subtotal with a slip: the quantity is left out
subtotal_price_only(item) == Round2(item.price)

\* OrderItem.subtotal
subtotal(item) == Round2(item.quantity * item.price)

RECURSIVE SumSubtotals(_)
SumSubtotals(items) ==
    IF items = <<>> THEN 0 ELSE subtotal(Head(items)) + SumSubtotals(Tail(items))

\* Order.items: the order's rows of order_item, in insertion order
RECURSIVE ItemsOfIn(_, _)
ItemsOfIn(order_id, rows) ==
    IF rows = <<>> THEN <<>>
    ELSE IF Head(rows).order_id = order_id
         THEN <<Head(rows)>> \o ItemsOfIn(order_id, Tail(rows))
         ELSE ItemsOfIn(order_id, Tail(rows))

\* Order.recalculate_total, given the order's items and a clock reading
recalculate_total(order, items, t) ==
    [order EXCEPT !.total_amount = SumSubtotals(items), !.updated_at = t]

\* seed_data on an empty database.  Names are short stand-ins that keep the
\* code point order of the seeded names (4 < 3 < 2 < 1); categories are
\* stand-ins that keep that of the seeded categories (4 < 2 < 1 < 3).
SeedTables ==
    (1 :> [code |-> <<"T", "1">>, name |-> <<"t", " ", "1">>]) @@
    (2 :> [code |-> <<"T", "2">>, name |-> <<"t", " ", "2">>]) @@
    (3 :> [code |-> <<"V", "I", "P">>, name |-> <<"t", " ", "V", "I", "P">>])

SeedMenu ==
    (1 :> [name |-> <<"p">>, price |-> 80000, category |-> Some(<<"m">>),
           available |-> TRUE]) @@
    (2 :> [name |-> <<"k">>, price |-> 120000, category |-> Some(<<"h">>),
           available |-> TRUE]) @@
    (3 :> [name |-> <<"c">>, price |-> 45000, category |-> Some(<<"w">>),
           available |-> TRUE]) @@
    (4 :> [name |-> <<"b">>, price |-> 60000, category |-> Some(<<"d">>),
           available |-> TRUE])

NoResponse == [view |-> "none", code |-> 0, flash |-> "", data |-> None]

\* create_app on a fresh database: init_database has seeded it
Init ==
    /\ now = 0
    /\ tables = SeedTables
    /\ menu = SeedMenu
    /\ orders = <<>>
    /\ order_items = <<>>
    /\ response = NoResponse
    /\ sessions = [r \in 1..MaxRequests |-> None]

\* ------------------------------------------------------------ helpers

\* login_required(roles) for the acting user (None: nobody is logged in)
login_required(actor, roles) ==
    IF actor = None \/ actor[1] \notin DOMAIN Users THEN "login"
    ELSE IF Users[actor[1]] \notin roles THEN "forbidden"
    ELSE "ok"

\* the answer of login_required when it does not let the request through
Refused(view, auth) ==
    IF auth = "login"
    THEN [view |-> view, code |-> 302, flash |-> "please log in", data |-> None]
    ELSE [view |-> view, code |-> 403, flash |-> "", data |-> None]

\* form.get(key) of a form given as a function from keys to strings
FormGet(form, key) == IF key \in DOMAIN form THEN Some(form[key]) ELSE None

\* ids sorted by a strict order given as its set of pairs, ties by id
RECURSIVE SortBy(_, _)
SortBy(ids, less) ==
    IF ids = {} THEN <<>>
    ELSE LET first == CHOOSE i \in ids :
                 \A j \in ids \ {i} :
                     <<i, j>> \in less \/ (<<j, i>> \notin less /\ i < j)
         IN  <<first>> \o SortBy(ids \ {first}, less)

NameLess(i, j) == StrLess(menu[i].name, menu[j].name)

\* the filter with a slip: items are offered whether available or not
AllMenuIds == DOMAIN menu

\* MenuItem.query.filter_by(available=True)
AvailableIds == {i \in DOMAIN menu : menu[i].available}

\* MenuItem.query.filter_by(available=True).order_by(MenuItem.name)
AvailableByName ==
    SortBy(AvailableIds,
           {p \in AvailableIds \X AvailableIds : NameLess(p[1], p[2])})

\* NULL sorts before every text
CategoryLess(i, j) ==
    LET a == menu[i].category
        b == menu[j].category
    IN  IF a = None \/ b = None THEN a = None /\ b # None
        ELSE StrLess(a[1], b[1])

CategoryNameLess(i, j) ==
    CategoryLess(i, j) \/ (~CategoryLess(j, i) /\ NameLess(i, j))

\* MenuItem.query.filter_by(available=True)
\*     .order_by(MenuItem.category, MenuItem.name)
AvailableByCategoryName ==
    SortBy(AvailableIds,
           {p \in AvailableIds \X AvailableIds : CategoryNameLess(p[1], p[2])})

\* the text "section"
SectionWord == <<"s", "e", "c", "t", "i", "o", "n">>

\* slugify(value)
slugify(value) ==
    LET slug == KeepWordAndDash(DashWhitespace(Lower(Strip(value))))
    IN  IF slug = <<>> THEN SectionWord ELSE slug

\* the label table_view gives an item without a category.  A stand-in for
\* the source's Thai text: like it, it sorts after the other labels and holds
\* one character that slugify drops.
FallbackLabel == <<"z", ".", "z">>

\* item.category or <fallback label>
CategoryName(item) ==
    IF menu[item].category = None \/ menu[item].category[1] = <<>>
    THEN FallbackLabel
    ELSE menu[item].category[1]

\* the anchor of a section opened for category_name
SectionAnchor(category_name, fallback_index) ==
    IF slugify(category_name) = SectionWord
    THEN SectionWord \o <<"-">> \o DecimalOf(fallback_index)
    ELSE slugify(category_name)

\* the sectioning loop with a slip: an item joins the first section that has
\* its label, wherever that section is
RECURSIVE menu_sections_grouped(_, _, _)
menu_sections_grouped(menu_items, menu_sections_so_far, fallback_index) ==
    IF menu_items = <<>> THEN menu_sections_so_far
    ELSE LET item == Head(menu_items)
             category_name == CategoryName(item)
             same == {k \in 1..Len(menu_sections_so_far) :
                          menu_sections_so_far[k].name = category_name}
             opens == same = {}
             opened ==
                 IF opens
                 THEN Append(menu_sections_so_far,
                             [name |-> category_name,
                              anchor |-> SectionAnchor(category_name, fallback_index),
                              items |-> <<>>])
                 ELSE menu_sections_so_far
             target == IF opens THEN Len(opened)
                       ELSE CHOOSE k \in same : \A j \in same : k <= j
         IN  menu_sections_grouped(
                 Tail(menu_items),
                 [opened EXCEPT ![target].items = Append(@, item)],
                 IF opens /\ slugify(category_name) = SectionWord
                 THEN fallback_index + 1 ELSE fallback_index)

\* the loop of table_view that builds menu_sections: the items still to
\* place, the sections built so far and fallback_index
RECURSIVE menu_sections(_, _, _)
menu_sections(menu_items, menu_sections_so_far, fallback_index) ==
    IF menu_items = <<>> THEN menu_sections_so_far
    ELSE LET item == Head(menu_items)
             category_name == CategoryName(item)
             opens == \/ menu_sections_so_far = <<>>
                      \/ menu_sections_so_far[Len(menu_sections_so_far)].name
                             # category_name
             opened ==
                 IF opens
                 THEN Append(menu_sections_so_far,
                             [name |-> category_name,
                              anchor |-> SectionAnchor(category_name, fallback_index),
                              items |-> <<>>])
                 ELSE menu_sections_so_far
         IN  menu_sections(
                 Tail(menu_items),
                 [opened EXCEPT ![Len(opened)].items = Append(@, item)],
                 IF opens /\ slugify(category_name) = SectionWord
                 THEN fallback_index + 1 ELSE fallback_index)

\* order_by(Order.created_at.desc()) of the orders ids: every sequence of
\* them with the newest first.  The database may return orders created at
\* the same time in either order.
RECURSIVE NewestFirst(_)
NewestFirst(ids) ==
    IF ids = {} THEN {<<>>}
    ELSE UNION {{<<i>> \o rest : rest \in NewestFirst(ids \ {i})} :
                   i \in {j \in ids :
                              \A k \in ids :
                                  orders[k].created_at <= orders[j].created_at}}

\* .limit(n)
Limit(rows, n) == SubSeq(rows, 1, IF Len(rows) < n THEN Len(rows) ELSE n)

\* the filter with a slip: the orders of every table are taken
active_orders_of_all_tables(table_id) ==
    NewestFirst({i \in 1..Len(orders) : orders[i].status # "paid"})

\* table_view: active_orders, as the lists the query may return
active_orders(table_id) ==
    NewestFirst({i \in 1..Len(orders) :
                     orders[i].table_id = table_id /\ orders[i].status # "paid"})

\* staff_dashboard: open_orders
staff_open_orders ==
    NewestFirst({i \in 1..Len(orders) : orders[i].status # "paid"})

\* the limit of the admin dashboard's list
OpenOrdersLimit == 10

\* the list with a slip: the limit is left out
admin_open_orders_unlimited ==
    NewestFirst({i \in 1..Len(orders) : orders[i].status # "paid"})

\* admin_dashboard: open_orders
admin_open_orders ==
    {Limit(rows, OpenOrdersLimit) :
         rows \in NewestFirst({i \in 1..Len(orders) : orders[i].status # "paid"})}

\* parse_order_items with a slip: a negative quantity is kept
RECURSIVE parse_order_items_nonzero(_, _)
parse_order_items_nonzero(form_data, menu_items) ==
    IF menu_items = <<>> THEN <<>>
    ELSE LET item == Head(menu_items)
             raw_qty == FormGet(form_data, item)
             text == IF raw_qty = None \/ raw_qty[1] = <<>> THEN None ELSE raw_qty
             qty == IF text = None THEN 0
                    ELSE IF IntParses(text[1]) THEN IntValue(text[1])
                    ELSE 0
             rest == parse_order_items_nonzero(form_data, Tail(menu_items))
         IN  IF qty # 0 THEN <<<<item, qty>>>> \o rest ELSE rest

\* parse_order_items(form_data, menu_items): form_data holds the raw value
\* of item_<id> at key id; the result is a sequence of <<item id, qty>>
RECURSIVE parse_order_items(_, _)
parse_order_items(form_data, menu_items) ==
    IF menu_items = <<>> THEN <<>>
    ELSE LET item == Head(menu_items)
             raw_qty == FormGet(form_data, item)
             text == IF raw_qty = None \/ raw_qty[1] = <<>> THEN None ELSE raw_qty
             qty == IF text = None THEN 0
                    ELSE IF IntParses(text[1]) THEN IntValue(text[1])
                    ELSE 0
             rest == parse_order_items(form_data, Tail(menu_items))
         IN  IF qty > 0 THEN <<<<item, qty>>>> \o rest ELSE rest

\* a response: the view that answered, the HTTP status, the flashed message
\* (the source's Thai messages are given in English) and the data rendered
Answer(view, code, flash) ==
    [view |-> view, code |-> code, flash |-> flash, data |-> None]

\* Model.query.get(id) / get_or_404(id) on the order table
OrderExists(order_id) == order_id \in 1..Len(orders)

\* DiningTable.query.get(table_id) for the raw form value (None: no such
\* row).  The value is compared with the integer key, so only a text that
\* reads as that integer finds a row.
TableGet(raw) ==
    IF raw = None \/ ~IntParses(raw[1]) THEN None
    ELSE IF IntValue(raw[1]) \in DOMAIN tables THEN Some(IntValue(raw[1]))
    ELSE None

\* DiningTable.query.filter_by(code=code.upper()).first(): codes are unique
TableByCode(code) ==
    LET found == {t \in DOMAIN tables : tables[t].code = Upper(code)}
    IN  IF found = {} THEN None ELSE Some(CHOOSE t \in found : TRUE)

\* the OrderItem rows built for the selected (item, qty) pairs of a new order
RECURSIVE NewOrderItems(_, _)
NewOrderItems(order_id, selected_items) ==
    IF selected_items = <<>> THEN <<>>
    ELSE <<[order_id |-> order_id,
            menu_item_id |-> Head(selected_items)[1],
            quantity |-> Head(selected_items)[2],
            price |-> menu[Head(selected_items)[1]].price]>>
         \o NewOrderItems(order_id, Tail(selected_items))

\* NewOrder with a slip: the acting user is not recorded
NewOrderUnowned(table_id, created_by, items, t_total, t_insert) ==
    recalculate_total(
        [table_id |-> table_id,
         status |-> "pending",
         total_amount |-> 0,
         created_at |-> t_insert,
         updated_at |-> t_insert,
         requested_assistance |-> FALSE,
         created_by |-> None,
         paid_at |-> None,
         payment_method |-> None],
        items, t_total)

\* Order(table=..., status="pending", created_by=...) with its items added
\* and recalculate_total() called at clock reading t_total; the column
\* defaults are filled in when commit() inserts the row, at t_insert.
NewOrder(table_id, created_by, items, t_total, t_insert) ==
    recalculate_total(
        [table_id |-> table_id,
         status |-> "pending",
         total_amount |-> 0,
         created_at |-> t_insert,
         updated_at |-> t_insert,
         requested_assistance |-> FALSE,
         created_by |-> created_by,
         paid_at |-> None,
         payment_method |-> None],
        items, t_total)

\* update_status with a slip: leaving "paid" keeps the payment's fields
update_status_keeps_payment(order, status, payment_method, t_updated, t_paid) ==
    IF status = "paid"
    THEN [order EXCEPT
            !.status = status,
            !.updated_at = t_updated,
            !.paid_at = Some(t_paid),
            !.payment_method =
                IF Strip(OrElse(payment_method, <<>>)) = <<>> THEN None
                ELSE Some(Strip(OrElse(payment_method, <<>>)))]
    ELSE [order EXCEPT !.status = status, !.updated_at = t_updated]

\* update_status with a slip: the payment method is stored as submitted
update_status_unstripped(order, status, payment_method, t_updated, t_paid) ==
    IF status = "paid"
    THEN [order EXCEPT
            !.status = status,
            !.updated_at = t_updated,
            !.paid_at = Some(t_paid),
            !.payment_method =
                IF OrElse(payment_method, <<>>) = <<>> THEN None
                ELSE Some(OrElse(payment_method, <<>>))]
    ELSE [order EXCEPT
            !.status = status,
            !.updated_at = t_updated,
            !.payment_method = None,
            !.paid_at = None]

\* the body of staff_update_status for a status of STATUS_FLOW: t_updated
\* and t_paid are its two successive readings of the clock
update_status(order, status, payment_method, t_updated, t_paid) ==
    IF status = "paid"
    THEN [order EXCEPT
            !.status = status,
            !.updated_at = t_updated,
            !.paid_at = Some(t_paid),
            !.payment_method =
                IF Strip(OrElse(payment_method, <<>>)) = <<>> THEN None
                ELSE Some(Strip(OrElse(payment_method, <<>>)))]
    ELSE [order EXCEPT
            !.status = status,
            !.updated_at = t_updated,
            !.payment_method = None,
            !.paid_at = None]

\* ------------------------------------------------------------ actions

\* time passes between requests
Tick ==
    /\ now < MaxTime
    /\ now' = now + 1
    /\ UNCHANGED <<tables, menu, orders, order_items, response, sessions>>

\* POST /staff/orders/new.  form: [table_id, items]; d: the clock ticks
\* that pass between recalculate_total() and the insert at commit().
StaffNewOrder(actor, form, d) ==
    LET auth == login_required(actor, {"staff", "admin"})
        menu_items == AvailableByName
        table == TableGet(form.table_id)
        selected_items == parse_order_items(form.items, menu_items)
        order_id == Len(orders) + 1
        rows == NewOrderItems(order_id, selected_items)
    IN  IF auth # "ok"
        THEN /\ response' = Refused("staff_new_order", auth)
             /\ UNCHANGED <<now, tables, menu, orders, order_items, sessions>>
        ELSE IF table = None
        THEN /\ response' = Answer("staff_new_order", 200, "please choose a table")
             /\ UNCHANGED <<now, tables, menu, orders, order_items, sessions>>
        ELSE IF selected_items = <<>>
        THEN /\ response' = Answer("staff_new_order", 200,
                                   "please choose at least one item")
             /\ UNCHANGED <<now, tables, menu, orders, order_items, sessions>>
        ELSE /\ Len(orders) < MaxOrders
             /\ now + d <= MaxTime
             /\ orders' = Append(orders, NewOrder(table[1], actor, rows, now, now + d))
             /\ order_items' = order_items \o rows
             /\ now' = now + d
             /\ response' = Answer("staff_new_order", 302, "order created")
             /\ UNCHANGED <<tables, menu, sessions>>

\* POST /table/<code>.  items: the form's quantities
TableViewPost(code, items, d) ==
    LET table == TableByCode(code)
        menu_items == AvailableByCategoryName
        selected_items == parse_order_items(items, menu_items)
        order_id == Len(orders) + 1
        rows == NewOrderItems(order_id, selected_items)
    IN  IF table = None
        THEN /\ response' = Answer("table_view", 404, "")
             /\ UNCHANGED <<now, tables, menu, orders, order_items, sessions>>
        ELSE IF selected_items = <<>>
        THEN /\ response' = Answer("table_view", 200,
                                   "please choose at least one item")
             /\ UNCHANGED <<now, tables, menu, orders, order_items, sessions>>
        ELSE /\ Len(orders) < MaxOrders
             /\ now + d <= MaxTime
             /\ orders' = Append(orders, NewOrder(table[1], None, rows, now, now + d))
             /\ order_items' = order_items \o rows
             /\ now' = now + d
             /\ response' = Answer("table_view", 302, "order sent")
             /\ UNCHANGED <<tables, menu, sessions>>

\* staff_update_status with a slip: the pipeline only moves forward
StaffUpdateStatusForwardOnly(actor, order_id, form, d) ==
    LET auth == login_required(actor, {"staff", "admin"})
        status == form.status
        Position(s) == CHOOSE i \in 1..Len(STATUS_FLOW) : STATUS_FLOW[i] = s
    IN  IF auth # "ok"
        THEN /\ response' = Refused("staff_update_status", auth)
             /\ UNCHANGED <<now, tables, menu, orders, order_items, sessions>>
        ELSE IF ~OrderExists(order_id)
        THEN /\ response' = Answer("staff_update_status", 404, "")
             /\ UNCHANGED <<now, tables, menu, orders, order_items, sessions>>
        ELSE IF \/ status = None
                \/ ~InStatusFlow(status[1])
                \/ Position(status[1]) < Position(orders[order_id].status)
        THEN /\ response' = Answer("staff_update_status", 302, "invalid status")
             /\ UNCHANGED <<now, tables, menu, orders, order_items, sessions>>
        ELSE /\ now + d <= MaxTime
             /\ orders' = [orders EXCEPT ![order_id] =
                    update_status(@, status[1], form.payment_method, now,
                                  IF status[1] = "paid" THEN now + d ELSE now)]
             /\ now' = IF status[1] = "paid" THEN now + d ELSE now
             /\ response' = Answer("staff_update_status", 302, "status updated")
             /\ UNCHANGED <<tables, menu, order_items, sessions>>

\* POST /staff/orders/<order_id>/status.  form: [status, payment_method];
\* d: the clock ticks between the two utcnow() calls of a payment.
StaffUpdateStatus(actor, order_id, form, d) ==
    LET auth == login_required(actor, {"staff", "admin"})
        status == form.status
    IN  IF auth # "ok"
        THEN /\ response' = Refused("staff_update_status", auth)
             /\ UNCHANGED <<now, tables, menu, orders, order_items, sessions>>
        ELSE IF ~OrderExists(order_id)
        THEN /\ response' = Answer("staff_update_status", 404, "")
             /\ UNCHANGED <<now, tables, menu, orders, order_items, sessions>>
        ELSE IF status = None \/ ~InStatusFlow(status[1])
        THEN /\ response' = Answer("staff_update_status", 302, "invalid status")
             /\ UNCHANGED <<now, tables, menu, orders, order_items, sessions>>
        ELSE /\ now + d <= MaxTime
             /\ orders' = [orders EXCEPT ![order_id] =
                    update_status(@, status[1], form.payment_method, now,
                                  IF status[1] = "paid" THEN now + d ELSE now)]
             /\ now' = IF status[1] = "paid" THEN now + d ELSE now
             /\ response' = Answer("staff_update_status", 302, "status updated")
             /\ UNCHANGED <<tables, menu, order_items, sessions>>

\* POST /staff/orders/<order_id>/acknowledge
StaffAcknowledge(actor, order_id) ==
    LET auth == login_required(actor, {"staff", "admin"})
    IN  IF auth # "ok"
        THEN /\ response' = Refused("staff_acknowledge", auth)
             /\ UNCHANGED <<now, tables, menu, orders, order_items, sessions>>
        ELSE IF ~OrderExists(order_id)
        THEN /\ response' = Answer("staff_acknowledge", 404, "")
             /\ UNCHANGED <<now, tables, menu, orders, order_items, sessions>>
        ELSE /\ orders' = [orders EXCEPT ![order_id] =
                    [@ EXCEPT !.requested_assistance = FALSE, !.updated_at = now]]
             /\ response' = Answer("staff_acknowledge", 302, "assistance acknowledged")
             /\ UNCHANGED <<now, tables, menu, order_items, sessions>>

\* customer_call_staff with a slip: the order is looked up by its id alone
CustomerCallStaffOfAnyTable(code, order_id) ==
    LET table == TableByCode(code)
    IN  IF table = None \/ ~OrderExists(order_id)
        THEN /\ response' = Answer("customer_call_staff", 404, "")
             /\ UNCHANGED <<now, tables, menu, orders, order_items, sessions>>
        ELSE /\ orders' = [orders EXCEPT ![order_id] =
                    [@ EXCEPT !.requested_assistance = TRUE, !.updated_at = now]]
             /\ response' = Answer("customer_call_staff", 302, "staff notified")
             /\ UNCHANGED <<now, tables, menu, order_items, sessions>>

\* customer_call_staff with a slip: a closed order cannot call the staff
CustomerCallStaffWhileActive(code, order_id) ==
    LET table == TableByCode(code)
    IN  IF table = None
           \/ ~OrderExists(order_id)
           \/ orders[order_id].table_id # table[1]
           \/ ~is_active(orders[order_id])
        THEN /\ response' = Answer("customer_call_staff", 404, "")
             /\ UNCHANGED <<now, tables, menu, orders, order_items, sessions>>
        ELSE /\ orders' = [orders EXCEPT ![order_id] =
                    [@ EXCEPT !.requested_assistance = TRUE, !.updated_at = now]]
             /\ response' = Answer("customer_call_staff", 302, "staff notified")
             /\ UNCHANGED <<now, tables, menu, order_items, sessions>>

\* POST /table/<code>/orders/<order_id>/call
CustomerCallStaff(code, order_id) ==
    LET table == TableByCode(code)
    IN  IF table = None
           \/ ~OrderExists(order_id)
           \/ orders[order_id].table_id # table[1]
        THEN /\ response' = Answer("customer_call_staff", 404, "")
             /\ UNCHANGED <<now, tables, menu, orders, order_items, sessions>>
        ELSE /\ orders' = [orders EXCEPT ![order_id] =
                    [@ EXCEPT !.requested_assistance = TRUE, !.updated_at = now]]
             /\ response' = Answer("customer_call_staff", 302, "staff notified")
             /\ UNCHANGED <<now, tables, menu, order_items, sessions>>

\* STATUS_FLOW.index(status) if status in STATUS_FLOW else -1
current_status_index(status) ==
    IF InStatusFlow(status)
    THEN (CHOOSE i \in 1..Len(STATUS_FLOW) : STATUS_FLOW[i] = status) - 1
    ELSE -1

\* GET /table/<code>/orders/<order_id>
CustomerOrderSummary(code, order_id) ==
    LET table == TableByCode(code)
    IN  /\ IF table = None
              \/ ~OrderExists(order_id)
              \/ orders[order_id].table_id # table[1]
           THEN response' = Answer("customer_order_summary", 404, "")
           ELSE response' =
                    [view |-> "customer_order_summary", code |-> 200, flash |-> "",
                     data |-> Some(
                         [table |-> table[1],
                          order |-> order_id,
                          current_status_index |->
                              current_status_index(orders[order_id].status)])]
        /\ UNCHANGED <<now, tables, menu, orders, order_items, sessions>>

\* GET /table/<code>: the page's sections and the table's active orders
TableViewGet(code) ==
    LET table == TableByCode(code)
    IN  /\ IF table = None
           THEN response' = Answer("table_view", 404, "")
           ELSE \E rows \in active_orders(table[1]) :
                    response' =
                        [view |-> "table_view", code |-> 200, flash |-> "",
                         data |-> Some(
                             [table |-> table[1],
                              menu_sections |->
                                  menu_sections(AvailableByCategoryName, <<>>, 1),
                              active_orders |-> rows,
                              latest_order |->
                                  IF rows = <<>> THEN None ELSE Some(rows[1])])]
        /\ UNCHANGED <<now, tables, menu, orders, order_items, sessions>>

\* DiningTable.query.order_by(DiningTable.code): codes are unique
TablesByCode ==
    SortBy(DOMAIN tables,
           {p \in (DOMAIN tables) \X (DOMAIN tables) :
                StrLess(tables[p[1]].code, tables[p[2]].code)})

\* GET /staff/dashboard
StaffDashboard(actor) ==
    LET auth == login_required(actor, {"staff", "admin"})
    IN  /\ IF auth # "ok"
           THEN response' = Refused("staff_dashboard", auth)
           ELSE \E rows \in staff_open_orders :
                    response' =
                        [view |-> "staff_dashboard", code |-> 200, flash |-> "",
                         data |-> Some([orders |-> rows, tables |-> TablesByCode])]
        /\ UNCHANGED <<now, tables, menu, orders, order_items, sessions>>

\* db.session.commit() of a request that loaded the row as `loaded` and
\* left it as `changed`: the UPDATE sets the columns whose value the request
\* changed, and leaves the others as the database has them
Flush(stored, loaded, changed) ==
    [column \in DOMAIN stored |->
         IF changed[column] # loaded[column] THEN changed[column]
         ELSE stored[column]]

\* staff_update_status, its first step: Order.query.get_or_404(order_id)
\* loads the row into the session of request r
StatusRequestLoad(r, actor, order_id, form) ==
    LET auth == login_required(actor, {"staff", "admin"})
    IN  /\ sessions[r] = None
        /\ IF auth # "ok"
           THEN /\ response' = Refused("staff_update_status", auth)
                /\ UNCHANGED sessions
           ELSE IF ~OrderExists(order_id)
           THEN /\ response' = Answer("staff_update_status", 404, "")
                /\ UNCHANGED sessions
           ELSE /\ sessions' = [sessions EXCEPT ![r] =
                       Some([order_id |-> order_id,
                             loaded |-> orders[order_id],
                             form |-> form])]
                /\ UNCHANGED response
        /\ UNCHANGED <<now, tables, menu, orders, order_items>>

\* staff_update_status, the rest of it: request r checks the status, changes
\* the row it loaded and commits.  d: the clock ticks between the two
\* utcnow() calls of a payment.
StatusRequestCommit(r, d) ==
    /\ sessions[r] # None
    /\ LET order_id == sessions[r][1].order_id
           loaded == sessions[r][1].loaded
           form == sessions[r][1].form
           status == form.status
       IN  IF status = None \/ ~InStatusFlow(status[1])
           THEN /\ response' = Answer("staff_update_status", 302, "invalid status")
                /\ UNCHANGED <<now, orders>>
           ELSE /\ now + d <= MaxTime
                /\ orders' = [orders EXCEPT ![order_id] =
                       Flush(@, loaded,
                             update_status(loaded, status[1], form.payment_method,
                                           now,
                                           IF status[1] = "paid" THEN now + d
                                           ELSE now))]
                /\ now' = IF status[1] = "paid" THEN now + d ELSE now
                /\ response' = Answer("staff_update_status", 302, "status updated")
    /\ sessions' = [sessions EXCEPT ![r] = None]
    /\ UNCHANGED <<tables, menu, order_items>>

\* SELECT sum(total_amount) over the given rows: NULL when there are none
RECURSIVE SqlSum(_)
SqlSum(rows) ==
    IF rows = <<>> THEN None
    ELSE LET rest == SqlSum(Tail(rows))
         IN  Some(Head(rows).total_amount + OrElse(rest, 0))

\* db.func.coalesce(x, 0)
Coalesce(x, d) == IF x = None THEN d ELSE x[1]

\* the rows of a table (a sequence) that satisfy a filter, given as the set
\* of the row numbers that do
RECURSIVE RowsIn(_, _, _)
RowsIn(rows, keep, i) ==
    IF i > Len(rows) THEN <<>>
    ELSE IF i \in keep THEN <<rows[i]>> \o RowsIn(rows, keep, i + 1)
    ELSE RowsIn(rows, keep, i + 1)

\* total_sales with a slip: completed orders count as sold
total_sales_with_completed ==
    Coalesce(SqlSum(RowsIn(orders,
                           {i \in 1..Len(orders) :
                                orders[i].status \in {"completed", "paid"}}, 1)),
             0)

\* admin_dashboard: total_sales
total_sales ==
    Coalesce(SqlSum(RowsIn(orders,
                           {i \in 1..Len(orders) : orders[i].status = "paid"}, 1)),
             0)

\* today_sales with a slip: the day is taken from created_at
today_sales_by_created_at(today) ==
    Coalesce(SqlSum(RowsIn(orders,
                           {i \in 1..Len(orders) :
                                /\ orders[i].status = "paid"
                                /\ orders[i].paid_at # None
                                /\ DateOf(orders[i].created_at) = today}, 1)),
             0)

\* admin_dashboard: today_sales, for today = datetime.utcnow().date()
today_sales(today) ==
    Coalesce(SqlSum(RowsIn(orders,
                           {i \in 1..Len(orders) :
                                /\ orders[i].status = "paid"
                                /\ orders[i].paid_at # None
                                /\ DateOf(orders[i].paid_at[1]) = today}, 1)),
             0)

\* GET /admin/dashboard
AdminDashboard(actor) ==
    LET auth == login_required(actor, {"admin"})
    IN  /\ IF auth # "ok"
           THEN response' = Refused("admin_dashboard", auth)
           ELSE \E rows \in admin_open_orders :
                    response' =
                        [view |-> "admin_dashboard", code |-> 200, flash |-> "",
                         data |-> Some([today |-> DateOf(now),
                                        total_sales |-> total_sales,
                                        today_sales |-> today_sales(DateOf(now)),
                                        open_orders |-> rows])]
        /\ UNCHANGED <<now, tables, menu, orders, order_items, sessions>>

\* the fields admin_menu_new and admin_menu_edit read from the form.
\* form: [name, price, category, available], each None when absent
MenuFormName(form) == Strip(OrElse(form.name, <<>>))

MenuFormCategory(form) ==
    IF Strip(OrElse(form.category, <<>>)) = <<>> THEN None
    ELSE Some(Strip(OrElse(form.category, <<>>)))

\* bool(request.form.get("available"))
MenuFormAvailable(form) == form.available # None /\ form.available[1] # <<>>

\* float(price) raises for a missing or malformed price
MenuFormPriceOk(form) == form.price # None /\ FloatParses(form.price[1])

\* the row a valid menu form describes: the price is round(price_value, 2)
MenuRow(form) ==
    [name |-> MenuFormName(form),
     price |-> Round2(FloatMills(form.price[1])),
     category |-> MenuFormCategory(form),
     available |-> MenuFormAvailable(form)]

\* the id the database gives a new row: one more than the largest in use
NextId(ids) ==
    IF ids = {} THEN 1 ELSE 1 + CHOOSE i \in ids : \A j \in ids : j <= i

\* POST /admin/menu/new
AdminMenuNew(actor, form) ==
    LET auth == login_required(actor, {"admin"})
    IN  IF auth # "ok"
        THEN /\ response' = Refused("admin_menu_new", auth)
             /\ UNCHANGED <<now, tables, menu, orders, order_items, sessions>>
        ELSE IF ~MenuFormPriceOk(form)
        THEN /\ response' = Answer("admin_menu_new", 200, "invalid price")
             /\ UNCHANGED <<now, tables, menu, orders, order_items, sessions>>
        ELSE IF MenuFormName(form) = <<>>
        THEN /\ response' = Answer("admin_menu_new", 200, "name required")
             /\ UNCHANGED <<now, tables, menu, orders, order_items, sessions>>
        ELSE /\ Cardinality(DOMAIN menu) < MaxMenuItems
             /\ menu' = menu @@ (NextId(DOMAIN menu) :> MenuRow(form))
             /\ response' = Answer("admin_menu_new", 302, "menu item added")
             /\ UNCHANGED <<now, tables, orders, order_items, sessions>>

\* admin_menu_edit with a slip: the new price is written through to the
\* order items of the menu item, and their orders are totalled again
AdminMenuEditRepricing(actor, item_id, form) ==
    LET auth == login_required(actor, {"admin"})
        repriced == [r \in 1..Len(order_items) |->
                        IF order_items[r].menu_item_id = item_id
                        THEN [order_items[r] EXCEPT !.price = MenuRow(form).price]
                        ELSE order_items[r]]
    IN  IF auth # "ok"
        THEN /\ response' = Refused("admin_menu_edit", auth)
             /\ UNCHANGED <<now, tables, menu, orders, order_items, sessions>>
        ELSE IF item_id \notin DOMAIN menu
        THEN /\ response' = Answer("admin_menu_edit", 404, "")
             /\ UNCHANGED <<now, tables, menu, orders, order_items, sessions>>
        ELSE IF ~MenuFormPriceOk(form)
        THEN /\ response' = Answer("admin_menu_edit", 200, "invalid price")
             /\ UNCHANGED <<now, tables, menu, orders, order_items, sessions>>
        ELSE IF MenuFormName(form) = <<>>
        THEN /\ response' = Answer("admin_menu_edit", 200, "name required")
             /\ UNCHANGED <<now, tables, menu, orders, order_items, sessions>>
        ELSE /\ menu' = [menu EXCEPT ![item_id] = MenuRow(form)]
             /\ order_items' = repriced
             /\ orders' = [o \in 1..Len(orders) |->
                    [orders[o] EXCEPT
                        !.total_amount = SumSubtotals(ItemsOfIn(o, repriced))]]
             /\ response' = Answer("admin_menu_edit", 302, "menu item updated")
             /\ UNCHANGED <<now, tables, sessions>>

\* POST /admin/menu/<item_id>/edit
AdminMenuEdit(actor, item_id, form) ==
    LET auth == login_required(actor, {"admin"})
    IN  IF auth # "ok"
        THEN /\ response' = Refused("admin_menu_edit", auth)
             /\ UNCHANGED <<now, tables, menu, orders, order_items, sessions>>
        ELSE IF item_id \notin DOMAIN menu
        THEN /\ response' = Answer("admin_menu_edit", 404, "")
             /\ UNCHANGED <<now, tables, menu, orders, order_items, sessions>>
        ELSE IF ~MenuFormPriceOk(form)
        THEN /\ response' = Answer("admin_menu_edit", 200, "invalid price")
             /\ UNCHANGED <<now, tables, menu, orders, order_items, sessions>>
        ELSE IF MenuFormName(form) = <<>>
        THEN /\ response' = Answer("admin_menu_edit", 200, "name required")
             /\ UNCHANGED <<now, tables, menu, orders, order_items, sessions>>
        ELSE /\ menu' = [menu EXCEPT ![item_id] = MenuRow(form)]
             /\ response' = Answer("admin_menu_edit", 302, "menu item updated")
             /\ UNCHANGED <<now, tables, orders, order_items, sessions>>

\* POST /admin/menu/<item_id>/delete.  The row of menu_item goes; the rows
\* of order_item that name it are not touched and keep its id.
AdminMenuDelete(actor, item_id) ==
    LET auth == login_required(actor, {"admin"})
    IN  IF auth # "ok"
        THEN /\ response' = Refused("admin_menu_delete", auth)
             /\ UNCHANGED <<now, tables, menu, orders, order_items, sessions>>
        ELSE IF item_id \notin DOMAIN menu
        THEN /\ response' = Answer("admin_menu_delete", 404, "")
             /\ UNCHANGED <<now, tables, menu, orders, order_items, sessions>>
        ELSE /\ menu' = [i \in DOMAIN menu \ {item_id} |-> menu[i]]
             /\ response' = Answer("admin_menu_delete", 302, "menu item deleted")
             /\ UNCHANGED <<now, tables, orders, order_items, sessions>>

\* table.orders: the orders that reference the table
TableOrders(table_id) == {i \in 1..Len(orders) : orders[i].table_id = table_id}

\* POST /admin/tables.  form: [name, code], each None when absent
AdminTables(actor, form) ==
    LET auth == login_required(actor, {"admin"})
        name == Strip(OrElse(form.name, <<>>))
        code == Upper(Strip(OrElse(form.code, <<>>)))
    IN  IF auth # "ok"
        THEN /\ response' = Refused("admin_tables", auth)
             /\ UNCHANGED <<now, tables, menu, orders, order_items, sessions>>
        ELSE IF name = <<>> \/ code = <<>>
        THEN /\ response' = Answer("admin_tables", 302, "name and code required")
             /\ UNCHANGED <<now, tables, menu, orders, order_items, sessions>>
        ELSE IF \E t \in DOMAIN tables : tables[t].code = code
        THEN /\ response' = Answer("admin_tables", 302, "code already in use")
             /\ UNCHANGED <<now, tables, menu, orders, order_items, sessions>>
        ELSE /\ Cardinality(DOMAIN tables) < MaxTables
             /\ tables' = tables @@
                    (NextId(DOMAIN tables) :> [code |-> code, name |-> name])
             /\ response' = Answer("admin_tables", 302, "table added")
             /\ UNCHANGED <<now, menu, orders, order_items, sessions>>

\* admin_table_delete with a slip: only the table's unpaid orders keep it
AdminTableDeleteUnlessActive(actor, table_id) ==
    LET auth == login_required(actor, {"admin"})
    IN  IF auth # "ok"
        THEN /\ response' = Refused("admin_table_delete", auth)
             /\ UNCHANGED <<now, tables, menu, orders, order_items, sessions>>
        ELSE IF table_id \notin DOMAIN tables
        THEN /\ response' = Answer("admin_table_delete", 404, "")
             /\ UNCHANGED <<now, tables, menu, orders, order_items, sessions>>
        ELSE IF \E i \in TableOrders(table_id) : orders[i].status # "paid"
        THEN /\ response' = Answer("admin_table_delete", 302, "table has orders")
             /\ UNCHANGED <<now, tables, menu, orders, order_items, sessions>>
        ELSE /\ tables' = [t \in DOMAIN tables \ {table_id} |-> tables[t]]
             /\ response' = Answer("admin_table_delete", 302, "table deleted")
             /\ UNCHANGED <<now, menu, orders, order_items, sessions>>

\* POST /admin/tables/<table_id>/delete
AdminTableDelete(actor, table_id) ==
    LET auth == login_required(actor, {"admin"})
    IN  IF auth # "ok"
        THEN /\ response' = Refused("admin_table_delete", auth)
             /\ UNCHANGED <<now, tables, menu, orders, order_items, sessions>>
        ELSE IF table_id \notin DOMAIN tables
        THEN /\ response' = Answer("admin_table_delete", 404, "")
             /\ UNCHANGED <<now, tables, menu, orders, order_items, sessions>>
        ELSE IF TableOrders(table_id) # {}
        THEN /\ response' = Answer("admin_table_delete", 302, "table has orders")
             /\ UNCHANGED <<now, tables, menu, orders, order_items, sessions>>
        ELSE /\ tables' = [t \in DOMAIN tables \ {table_id} |-> tables[t]]
             /\ response' = Answer("admin_table_delete", 302, "table deleted")
             /\ UNCHANGED <<now, menu, orders, order_items, sessions>>

\* ------------------------------------------------------- environments

Admin == Some(1)

Staff == Some(2)

\* the clock ticks that may pass inside one request
Elapsed == {0, 1}

\* payment_method values of the status form: absent, blank, padded
PaymentMethods == {None, Some(<<" ">>), Some(<<" ", "q", "r", " ">>)}

\* status values of the status form: the pipeline, and values outside it
StatusValues ==
    {Some(STATUS_FLOW[i]) : i \in 1..Len(STATUS_FLOW)}
        \cup {None, Some("cancelled"), Some("bogus")}

\* a payment method matters to a payment only
StatusForms ==
    [status : StatusValues \ {Some("paid")}, payment_method : {None}]
        \cup [status : {Some("paid")}, payment_method : PaymentMethods]

\* the order life cycle: orders are created by staff and by customers,
\* moved along the pipeline, paid and flagged for assistance
NextLife ==
    \/ Tick
    \/ StaffNewOrder(Staff, [table_id |-> Some(<<"1">>), items |-> (1 :> <<"2">>)], 0)
    \/ TableViewPost(<<"t", "1">>, (3 :> <<"1">>), 0)
    \/ \E id \in 1..Len(orders), form \in StatusForms :
           StaffUpdateStatus(Staff, id, form, 0)
    \/ \E id \in 1..Len(orders) : StaffAcknowledge(Staff, id)
    \/ \E id \in 1..Len(orders) : CustomerCallStaff(<<"T", "1">>, id)

Spec == Init /\ [][NextLife]_vars

\* menu forms: a price with three decimals on an item taken off the menu; a
\* padded price and category on an available item; a malformed price; a
\* blank name
MenuForms ==
    {[name |-> Some(<<"p">>), price |-> Some(<<"1", ".", "2", "3", "4">>),
      category |-> None, available |-> None],
     [name |-> Some(<<"p">>), price |-> Some(<<" ", "4", "5", " ">>),
      category |-> Some(<<" ", "x", " ">>), available |-> Some(<<"o", "n">>)],
     [name |-> Some(<<"p">>), price |-> Some(<<"x">>),
      category |-> None, available |-> Some(<<"o", "n">>)],
     [name |-> Some(<<" ">>), price |-> Some(<<"1">>),
      category |-> None, available |-> Some(<<"o", "n">>)]}

NewItemForm ==
    [name |-> Some(<<"n">>), price |-> Some(<<"0", ".", "5">>),
     category |-> None, available |-> Some(<<"o", "n">>)]

\* quantity forms: item id -> the text typed (a key left out is a field
\* that was not submitted)
QuantityForms ==
    {(1 :> <<"2">>) @@ (3 :> <<" ", "1", " ">>),
     (1 :> <<"x">>) @@ (3 :> <<"+", "2">>) @@ (5 :> <<"1">>),
     (1 :> <<"-", "1">>) @@ (3 :> <<"x">>),
     (1 :> <<"0">>) @@ (2 :> <<>>),
     (1 :> <<"1">>),
     <<>>}

\* table_id values of the staff order form: a table, none, no such table,
\* not a number
TableIdValues == {Some(<<"1">>), None, Some(<<"9">>), Some(<<"x">>)}

\* every quantity form for a table, and an order for each other table_id
MenuOrderForms ==
    [table_id : {Some(<<"1">>)}, items : QuantityForms]
        \cup [table_id : TableIdValues, items : {(1 :> <<"1">>)}]

\* the menu is edited while orders are placed against it
NextMenu ==
    \/ \E form \in MenuForms : AdminMenuEdit(Admin, 1, form)
    \/ AdminMenuNew(Admin, NewItemForm)
    \/ \E form \in MenuOrderForms : StaffNewOrder(Staff, form, 0)
    \/ \E items \in QuantityForms : TableViewPost(<<"t", "2">>, items, 0)

SpecMenu == Init /\ [][NextMenu]_vars

\* status forms of the sales: orders are completed, paid, paid again and
\* taken back
SalesForms ==
    [status : {Some("completed"), Some("paid"), Some("pending")},
     payment_method : {None}]

\* orders of two tables are paid over two days and the admin reads the sales
NextSales ==
    \/ Tick
    \/ StaffNewOrder(Staff, [table_id |-> Some(<<"1">>), items |-> (1 :> <<"2">>)], 0)
    \/ TableViewPost(<<"t", "2">>, (3 :> <<"1">>), 0)
    \/ \E id \in 1..Len(orders), form \in SalesForms, d \in Elapsed :
           StaffUpdateStatus(Staff, id, form, d)
    \/ AdminDashboard(Admin)

SpecSales == Init /\ [][NextSales]_vars

\* status forms of the floor: every pipeline status, no payment method
PipelineForms ==
    [status : {Some(STATUS_FLOW[i]) : i \in 1..Len(STATUS_FLOW)},
     payment_method : {None}]

\* orders of two tables are moved along the pipeline while the customers
\* and the staff look at their lists
NextViews ==
    \/ Tick
    \/ StaffNewOrder(Staff, [table_id |-> Some(<<"1">>), items |-> (1 :> <<"2">>)], 0)
    \/ \E code \in {<<"t", "1">>, <<"T", "2">>} :
           TableViewPost(code, (3 :> <<"1">>), 0)
    \/ \E id \in 1..Len(orders), form \in PipelineForms :
           StaffUpdateStatus(Staff, id, form, 0)
    \/ \E code \in {<<"t", "1">>, <<"T", "2">>, <<"V", "i", "p">>, <<"x">>} :
           TableViewGet(code)
    \/ StaffDashboard(Staff)

SpecViews == Init /\ [][NextViews]_vars

\* a restaurant that has been open for a while: Backlog orders of table 1,
\* one placed by the staff at each of the last Backlog ticks before the
\* clock's 0, each for one of menu item 1, none of them touched since
BacklogItems ==
    [i \in 1..Backlog |->
         [order_id |-> i, menu_item_id |-> 1, quantity |-> 1,
          price |-> SeedMenu[1].price]]

BacklogOrders ==
    [i \in 1..Backlog |->
         NewOrder(1, Staff, <<BacklogItems[i]>>, i - Backlog - 1, i - Backlog - 1)]

InitBacklog ==
    /\ now = 0
    /\ tables = SeedTables
    /\ menu = SeedMenu
    /\ orders = BacklogOrders
    /\ order_items = BacklogItems
    /\ response = NoResponse
    /\ sessions = [r \in 1..MaxRequests |-> None]

\* status forms of the overview: an order is paid, and taken back
OverviewForms ==
    [status : {Some("paid"), Some("pending")}, payment_method : {None}]

\* the oldest orders and the newest one are paid and reopened while the
\* admin reads the dashboard
NextOverview ==
    \/ Tick
    \/ \E id \in {1, 2, Backlog}, form \in OverviewForms :
           StaffUpdateStatus(Staff, id, form, 0)
    \/ AdminDashboard(Admin)

SpecOverview == InitBacklog /\ [][NextOverview]_vars

\* category values of the menu form: none, labels that differ in case only,
\* a label of punctuation only, the labels "section" and "section-1", and
\* the text of the fallback label
SectionCategories ==
    {None, Some(<<"S">>), Some(<<"s">>), Some(<<".">>), Some(SectionWord),
     Some(SectionWord \o <<"-", "1">>), Some(FallbackLabel)}

\* the menu form that gives an item a category and leaves its name
SectionForm(item_id, category, available) ==
    [name |-> Some(SeedMenu[item_id].name), price |-> Some(<<"1">>),
     category |-> category, available |-> available]

\* the admin moves three items between categories and takes an item off the
\* menu while a customer opens the table's page
NextSections ==
    \/ \E item_id \in {1, 2, 3}, category \in SectionCategories :
           AdminMenuEdit(Admin, item_id,
                         SectionForm(item_id, category, Some(<<"o", "n">>)))
    \/ \E available \in {None, Some(<<"o", "n">>)} :
           AdminMenuEdit(Admin, 4,
                         SectionForm(4, SeedMenu[4].category, available))
    \/ TableViewGet(<<"T", "1">>)

SpecSections == Init /\ [][NextSections]_vars

\* the order form of the staff: two items for the VIP table
ClockOrderForm ==
    [table_id |-> Some(<<"3">>),
     items |-> (1 :> <<"2">>) @@ (3 :> <<" ", "1", " ">>)]

\* the status form of the clock: an order is paid
ClockForm == [status |-> Some("paid"), payment_method |-> None]

\* the new price of item 1
RepriceForm ==
    [name |-> Some(<<"p">>), price |-> Some(<<" ", "4", "5", " ">>),
     category |-> Some(<<"m">>), available |-> Some(<<"o", "n">>)]

\* requests during which the clock may advance: orders are created by the
\* admin, the staff and the customers, paid and flagged, and item 1 gets a
\* new price
NextClock ==
    \/ Tick
    \/ \E actor \in {Admin, Staff}, d \in Elapsed :
           StaffNewOrder(actor, ClockOrderForm, d)
    \/ \E d \in Elapsed : TableViewPost(<<"t", "2">>, (3 :> <<"+", "2">>), d)
    \/ \E id \in 1..Len(orders), d \in Elapsed :
           StaffUpdateStatus(Staff, id, ClockForm, d)
    \/ \E id \in 1..Len(orders) : StaffAcknowledge(Admin, id)
    \/ \E id \in 1..Len(orders) : CustomerCallStaff(<<"v", "i", "p">>, id)
    \/ AdminMenuEdit(Admin, 1, RepriceForm)

SpecClock == Init /\ [][NextClock]_vars

\* table forms: a new table with padded fields and a code in lower case, a
\* code in use, a missing name
TableForms ==
    {[name |-> Some(<<" ", "n", " ">>), code |-> Some(<<" ", "t", "4", " ">>)],
     [name |-> Some(<<"n">>), code |-> Some(<<"t", "1">>)],
     [name |-> None, code |-> Some(<<"T", "5">>)]}

\* the status form of the tables: an order is paid
TablePaidForm == [status |-> Some("paid"), payment_method |-> None]

\* the admin adds and deletes tables while orders are placed for them and
\* paid
NextTables ==
    \/ \E form \in TableForms : AdminTables(Admin, form)
    \/ \E table_id \in 1..(MaxTables + 1) : AdminTableDelete(Admin, table_id)
    \/ \E table_id \in {<<"1">>, <<"2">>, <<"4">>} :
           StaffNewOrder(Staff, [table_id |-> Some(table_id), items |-> (1 :> <<"1">>)], 0)
    \/ TableViewPost(<<"t", "4">>, (3 :> <<"1">>), 0)
    \/ \E id \in 1..Len(orders) : StaffUpdateStatus(Staff, id, TablePaidForm, 0)

SpecTables == Init /\ [][NextTables]_vars

\* status forms of the race: a payment by QR, a step back to preparing, a
\* status outside the pipeline
RaceForms ==
    {[status |-> Some("paid"), payment_method |-> Some(<<"q", "r">>)],
     [status |-> Some("preparing"), payment_method |-> None],
     [status |-> Some("bogus"), payment_method |-> None]}

\* status requests of several staff members run at the same time: each
\* loads its order, and changes and commits it later
NextRace ==
    \/ Tick
    \/ StaffNewOrder(Staff, [table_id |-> Some(<<"1">>), items |-> (1 :> <<"1">>)], 0)
    \/ \E r \in 1..MaxRequests, form \in RaceForms :
           StatusRequestLoad(r, Staff, 1, form)
    \/ \E r \in 1..MaxRequests : StatusRequestCommit(r, 0)

SpecRace == Init /\ [][NextRace]_vars

\* status forms of every status value, the pipeline's and the others
AnyStatusForms == [status : StatusValues, payment_method : {None}]

\* status forms of a request that runs beside the others
BesideForms ==
    [status : {Some("cancelled"), Some("served")}, payment_method : {None}]

\* every request that writes: orders are placed, the first is given every
\* status value, the second is flagged, acknowledged and given a status by
\* a request that runs beside the others, while the admin deletes, edits
\* and adds menu items and tables
NextWrites ==
    \/ StaffNewOrder(Staff, [table_id |-> Some(<<"1">>), items |-> (1 :> <<"2">>)], 0)
    \/ TableViewPost(<<"t", "2">>, (3 :> <<"1">>), 0)
    \/ \E id \in {1, MaxOrders + 1}, form \in AnyStatusForms :
           StaffUpdateStatus(Staff, id, form, 0)
    \/ StaffAcknowledge(Staff, 2)
    \/ CustomerCallStaff(<<"t", "2">>, 2)
    \/ AdminMenuDelete(Admin, 1)
    \/ AdminMenuEdit(Admin, 3, RepriceForm)
    \/ AdminMenuNew(Admin, NewItemForm)
    \/ AdminTables(Admin, [name |-> Some(<<"n">>), code |-> Some(<<"t", "4">>)])
    \/ AdminTableDelete(Admin, 3)
    \/ \E form \in BesideForms : StatusRequestLoad(1, Staff, 2, form)
    \/ StatusRequestCommit(1, 0)

SpecWrites == Init /\ [][NextWrites]_vars

\* table codes of the customer's URL: a seeded code in lower, upper and
\* mixed case, and a code no table has
CustomerCodes == {<<"t", "1">>, <<"T", "2">>, <<"V", "i", "p">>, <<"x">>}

\* customers call the staff for, and look at, the orders of their own
\* table, of another table and orders that do not exist, while orders are
\* placed for two tables and the first is paid
NextCustomers ==
    \/ Tick
    \/ StaffNewOrder(Staff, [table_id |-> Some(<<"3">>), items |-> (1 :> <<"2">>)], 0)
    \/ TableViewPost(<<"t", "2">>, (3 :> <<"1">>), 0)
    \/ StaffUpdateStatus(Staff, 1, TablePaidForm, 0)
    \/ \E code \in CustomerCodes, id \in 1..(MaxOrders + 1) :
           CustomerCallStaff(code, id)
    \/ \E code \in CustomerCodes, id \in 1..(MaxOrders + 1) :
           CustomerOrderSummary(code, id)

SpecCustomers == Init /\ [][NextCustomers]_vars

\* ------------------------------------------------------------- claims

\* the five pipeline statuses, as the specification lists them
Pipeline == {"pending", "preparing", "served", "completed", "paid"}

\* C1: in every reachable state each order has paid_at set if and only if
\* its status is "paid", and payment_method set only if its status is "paid".
C1_PaymentFieldsFollowStatus ==
    \A i \in 1..Len(orders) :
        /\ (orders[i].paid_at # None) <=> (orders[i].status = "paid")
        /\ (orders[i].payment_method # None) => (orders[i].status = "paid")

\* a paid order with a payment method, flagged for assistance after payment,
\* beside an order that was moved on and is not paid
C1_Witness ==
    \E i, j \in 1..Len(orders) :
        /\ orders[i].status = "paid"
        /\ orders[i].payment_method = Some(<<"q", "r">>)
        /\ orders[i].requested_assistance
        /\ orders[j].status = "served"
        /\ orders[j].paid_at = None

\* C2: a status update whose status is not one of the five pipeline values
\* (a missing value, "cancelled", any other text) answers "invalid status"
\* and leaves every order, with its status, updated_at, paid_at and
\* payment_method, as it was.
C2_InvalidStatusChangesNothing ==
    \A id \in 1..Len(orders), form \in StatusForms :
        (form.status = None \/ form.status[1] \notin Pipeline)
        => /\ ENABLED StaffUpdateStatus(Staff, id, form, 0)
           /\ ~ENABLED (/\ StaffUpdateStatus(Staff, id, form, 0)
                        /\ ~(/\ orders' = orders
                             /\ response'.flash = "invalid status"))

\* an invalid status was just refused for a paid order, after time has passed
C2_Witness ==
    /\ response.view = "staff_update_status"
    /\ response.flash = "invalid status"
    /\ \E i \in 1..Len(orders) :
           /\ orders[i].status = "paid"
           /\ orders[i].payment_method # None
           /\ orders[i].updated_at < now

\* the payment method a payment stores for each submitted value
C3_Stored(payment_method) ==
    CASE payment_method = None -> None
      [] payment_method = Some(<<" ">>) -> None
      [] payment_method = Some(<<" ", "q", "r", " ">>) -> Some(<<"q", "r">>)

\* C3: a status update to "paid", from any status, sets paid_at to the
\* current time and payment_method to the submitted value without its
\* surrounding whitespace, or to None when it is blank or absent; an update
\* to any other pipeline status sets both to None.
C3_PaymentStampedAndCleared ==
    \A id \in 1..Len(orders), form \in StatusForms, d \in Elapsed :
        (form.status # None /\ form.status[1] \in Pipeline /\ now + d <= MaxTime)
        => /\ ENABLED StaffUpdateStatus(Staff, id, form, d)
           /\ ~ENABLED (/\ StaffUpdateStatus(Staff, id, form, d)
                        /\ ~(IF form.status[1] = "paid"
                             THEN /\ orders'[id].paid_at = Some(now')
                                  /\ orders'[id].payment_method =
                                         C3_Stored(form.payment_method)
                             ELSE /\ orders'[id].paid_at = None
                                  /\ orders'[id].payment_method = None))

\* an order paid again, later than its first update, with a padded method
C3_Witness ==
    /\ response.flash = "status updated"
    /\ \E i \in 1..Len(orders) :
           /\ orders[i].status = "paid"
           /\ orders[i].payment_method = Some(<<"q", "r">>)
           /\ orders[i].paid_at = Some(now)
           /\ orders[i].created_at < now

\* C4: an order in any pipeline status can be moved to any pipeline status,
\* forward, backward or the same, by one successful status update.
C4_AnyStatusToAnyStatus ==
    \A id \in 1..Len(orders) :
        \A t \in Pipeline :
            ENABLED (/\ StaffUpdateStatus(Staff, id,
                            [status |-> Some(t), payment_method |-> None], 0)
                     /\ orders'[id].status = t
                     /\ response'.flash = "status updated")

\* a paid order that one status update takes back to "pending"
C4_Witness ==
    \E id \in 1..Len(orders) :
        /\ orders[id].status = "paid"
        /\ ENABLED (/\ StaffUpdateStatus(Staff, id,
                           [status |-> Some("pending"), payment_method |-> None], 0)
                    /\ orders'[id].status = "pending"
                    /\ orders'[id].paid_at = None)

\* what each quantity text of the forms means: its integer, 0 when it is
\* blank or not an integer
QuantityMeant(text) ==
    CASE text = <<"2">> -> 2
      [] text = <<" ", "1", " ">> -> 1
      [] text = <<"+", "2">> -> 2
      [] text = <<"1">> -> 1
      [] text = <<"-", "1">> -> 0 - 1
      [] text = <<"0">> -> 0
      [] text = <<"x">> -> 0
      [] text = <<>> -> 0

\* the (item, quantity) pairs a quantity form asks for, over the items
\* that are available when it is submitted
Selection(items) ==
    {<<i, QuantityMeant(items[i])>> :
        i \in {j \in DOMAIN items \cap DOMAIN menu :
                  menu[j].available /\ QuantityMeant(items[j]) > 0}}

\* the rows of order_item added by a step
AddedItems == SubSeq(order_items', Len(order_items) + 1, Len(order_items'))

RECURSIVE QuantityTimesMenuPrice(_)
QuantityTimesMenuPrice(rows) ==
    IF rows = <<>> THEN 0
    ELSE Head(rows).quantity * menu[Head(rows).menu_item_id].price
         + QuantityTimesMenuPrice(Tail(rows))

\* C5: every successful create, by staff or by a customer, gives the new
\* order a total_amount equal to the sum over its items of quantity times
\* the menu item's price at creation, rounded to 2 decimals.
C5_TotalIsSumOfLineItems ==
    [][Len(orders') = Len(orders) + 1
          => /\ AddedItems # <<>>
             /\ \A r \in 1..Len(AddedItems) :
                    AddedItems[r].order_id = Len(orders')
             /\ orders'[Len(orders')].total_amount =
                    Round2(QuantityTimesMenuPrice(AddedItems))]_vars

\* an order of two items, one of them twice, at a price that was edited
C5_Witness ==
    \E i \in 1..Len(orders) :
        /\ orders[i].total_amount = 2 * 45000 + 45000
        /\ Len(ItemsOfIn(i, order_items)) = 2

\* C6: a create whose selection is empty once non-positive and unparsable
\* quantities are left out is answered with the validation message and
\* leaves the orders and order items as they were; so is a staff create
\* whose table is missing or does not exist.
C6_RejectedCreatePersistsNothing ==
    [][/\ \A form \in MenuOrderForms :
              (/\ response'.view = "staff_new_order"
               /\ (Selection(form.items) = {} \/ form.table_id # Some(<<"1">>))
               /\ StaffNewOrder(Staff, form, 0))
              => /\ orders' = orders
                 /\ order_items' = order_items
                 /\ response'.code = 200
                 /\ response'.flash =
                        IF form.table_id # Some(<<"1">>)
                        THEN "please choose a table"
                        ELSE "please choose at least one item"
       /\ \A items \in QuantityForms :
              (/\ response'.view = "table_view"
               /\ Selection(items) = {}
               /\ TableViewPost(<<"t", "2">>, items, 0))
              => /\ orders' = orders
                 /\ order_items' = order_items
                 /\ response'.code = 200
                 /\ response'.flash = "please choose at least one item"]_vars

\* a create was just refused while an order is on record
C6_Witness ==
    /\ response.flash = "please choose at least one item"
    /\ Len(orders) = 1
    /\ ~menu[1].available

\* the (item, quantity) pairs of the order items a step has added
C7_AddedPairs ==
    {<<AddedItems[r].menu_item_id, AddedItems[r].quantity>> :
        r \in 1..Len(AddedItems)}

\* C7: the items of a new order are exactly the (item, quantity) pairs of
\* the available menu items whose submitted quantity is an integer above 0:
\* a malformed, missing, zero or negative quantity leaves out that item
\* only, and an item that is not available is never ordered.
C7_SelectionIsAvailableAndPositive ==
    [][/\ \A form \in MenuOrderForms :
              (/\ response'.view = "staff_new_order"
               /\ form.table_id = Some(<<"1">>)
               /\ Selection(form.items) # {}
               /\ StaffNewOrder(Staff, form, 0))
              => /\ C7_AddedPairs = Selection(form.items)
                 /\ response'.flash = "order created"
       /\ \A items \in QuantityForms :
              (/\ response'.view = "table_view"
               /\ Selection(items) # {}
               /\ TableViewPost(<<"t", "2">>, items, 0))
              => /\ C7_AddedPairs = Selection(items)
                 /\ response'.flash = "order sent"
       /\ \A r \in 1..Len(AddedItems) :
              /\ menu[AddedItems[r].menu_item_id].available
              /\ AddedItems[r].quantity > 0]_vars

\* an order placed with a quantity for item 1 while item 1 was off the
\* menu: it holds the other item only
C7_Witness ==
    /\ response.flash = "order created"
    /\ ~menu[1].available
    /\ \E i \in 1..Len(orders) :
           /\ orders[i].created_by = Staff
           /\ Len(ItemsOfIn(i, order_items)) = 1
           /\ ItemsOfIn(i, order_items)[1].menu_item_id = 3

\* C8: a menu edit (price, availability, category) leaves the price and
\* quantity of every existing order item and the total_amount of every
\* existing order as they were.
C8_MenuEditKeepsOrders ==
    [][\A form \in MenuForms :
          (/\ response'.view = "admin_menu_edit"
           /\ AdminMenuEdit(Admin, 1, form))
          => /\ order_items' = order_items
             /\ orders' = orders]_vars

\* the price of item 1 was edited after it was ordered: the order item and
\* the order's total still carry the price of the day
C8_Witness ==
    /\ response.flash = "menu item updated"
    /\ menu[1].price = 45000
    /\ \E i \in 1..Len(orders) :
           /\ orders[i].total_amount = 2 * 80000 + 45000
           /\ \E r \in 1..Len(order_items) :
                  /\ order_items[r].order_id = i
                  /\ order_items[r].menu_item_id = 1
                  /\ order_items[r].price = 80000

\* the sum of total_amount over a set of order ids
RECURSIVE TotalOver(_)
TotalOver(ids) ==
    IF ids = {} THEN 0
    ELSE LET i == CHOOSE j \in ids : TRUE
         IN  orders[i].total_amount + TotalOver(ids \ {i})

PaidOrders == {i \in 1..Len(orders) : orders[i].status = "paid"}

\* C9: in every reachable state the total revenue, as computed and as the
\* dashboard shows it, is the sum of total_amount over exactly the orders
\* whose status is "paid" now (0 when there are none).
C9_TotalRevenueIsPaidOrders ==
    /\ total_sales = TotalOver(PaidOrders)
    /\ (response.view = "admin_dashboard" /\ response.code = 200)
           => response.data[1].total_sales = TotalOver(PaidOrders)

\* the dashboard shows the one paid order; the other order has been
\* changed since it was created and is not paid
C9_Witness ==
    /\ response.view = "admin_dashboard"
    /\ response.data[1].total_sales = 45000
    /\ \E i \in 1..Len(orders) :
           /\ orders[i].total_amount = 160000
           /\ orders[i].status = "pending"
           /\ orders[i].updated_at > orders[i].created_at

\* the orders paid on a calendar date
PaidOn(day) ==
    {i \in PaidOrders :
        orders[i].paid_at # None /\ DateOf(orders[i].paid_at[1]) = day}

\* C10: for every calendar date, today's revenue is the sum of total_amount
\* over exactly the orders whose status is "paid" and whose paid_at falls on
\* that date; the dashboard shows it for the date of its request.
C10_TodayRevenueIsPaidToday ==
    /\ \A day \in 0..DateOf(MaxTime) : today_sales(day) = TotalOver(PaidOn(day))
    /\ (response.view = "admin_dashboard" /\ response.code = 200)
           => response.data[1].today_sales = TotalOver(PaidOn(response.data[1].today))

\* on the second day the dashboard counts the order paid that day and not
\* the order paid the day before, which the total revenue still holds
C10_Witness ==
    /\ response.view = "admin_dashboard"
    /\ response.data[1].today = 1
    /\ response.data[1].today_sales = 160000
    /\ response.data[1].total_sales = 160000 + 45000
    /\ \E i \in 1..Len(orders) :
           /\ orders[i].status = "paid"
           /\ DateOf(orders[i].created_at) = 0
           /\ DateOf(orders[i].paid_at[1]) = 1

\* the ids a list of orders holds
Listed(rows) == {rows[k] : k \in 1..Len(rows)}

\* a list of orders holds no order twice and has the newest first
NewestFirstNoRepeat(rows) ==
    /\ Cardinality(Listed(rows)) = Len(rows)
    /\ \A k \in 1..(Len(rows) - 1) :
           orders[rows[k]].created_at >= orders[rows[k + 1]].created_at

\* the orders of a table whose status is not "paid"
UnpaidOrdersOf(table_id) ==
    {i \in 1..Len(orders) :
         orders[i].table_id = table_id /\ orders[i].status # "paid"}

\* C11: the active orders of a table, as computed and as the table's page
\* shows them, are exactly the orders of that table whose status is not
\* "paid", each once, newest first; so the list is empty for a table without
\* orders, and an order is on its table's list exactly while it is not paid.
C11_ActiveOrdersOfTable ==
    /\ \A t \in DOMAIN tables :
           \A rows \in active_orders(t) :
               /\ Listed(rows) = UnpaidOrdersOf(t)
               /\ NewestFirstNoRepeat(rows)
               /\ (TableOrders(t) = {}) => rows = <<>>
    /\ \A i \in 1..Len(orders) :
           \A rows \in active_orders(orders[i].table_id) :
               (i \in Listed(rows)) <=> (orders[i].status # "paid")
    /\ (response.view = "table_view" /\ response.data # None)
           => /\ Listed(response.data[1].active_orders)
                    = UnpaidOrdersOf(response.data[1].table)
              /\ NewestFirstNoRepeat(response.data[1].active_orders)

\* the page of table 1 lists its two orders, the later one first, the older
\* of them back on the list after a status update
C11_Witness ==
    /\ response.view = "table_view"
    /\ response.data # None
    /\ response.data[1].table = 1
    /\ response.data[1].active_orders = <<2, 1>>
    /\ orders[2].created_at > orders[1].created_at
    /\ orders[1].updated_at > orders[2].created_at

\* the statuses an order can be given a name for
KnownStatuses == Pipeline \cup {"cancelled"}

\* C20: is_active is false exactly for "paid" and "cancelled" and true for
\* the other pipeline statuses; and in every reachable state an order is on
\* the staff's list of open orders, and on its table's list of active orders,
\* if and only if is_active is true of it.
C20_ListedIffActive ==
    /\ \A st \in KnownStatuses :
           is_active([status |-> st]) <=> (st \notin {"paid", "cancelled"})
    /\ \A i \in 1..Len(orders) :
           /\ \A rows \in staff_open_orders :
                  (i \in Listed(rows)) <=> is_active(orders[i])
           /\ \A rows \in active_orders(orders[i].table_id) :
                  (i \in Listed(rows)) <=> is_active(orders[i])
    /\ (response.view = "staff_dashboard" /\ response.data # None)
           => \A i \in 1..Len(orders) :
                  (i \in Listed(response.data[1].orders)) <=> is_active(orders[i])
    /\ (response.view = "table_view" /\ response.data # None)
           => \A i \in TableOrders(response.data[1].table) :
                  (i \in Listed(response.data[1].active_orders))
                      <=> is_active(orders[i])

\* the staff's list shows a completed order and leaves out a paid one
C20_Witness ==
    /\ response.view = "staff_dashboard"
    /\ response.data # None
    /\ Len(orders) = 2
    /\ orders[1].status = "paid"
    /\ orders[2].status = "completed"
    /\ response.data[1].orders = <<2>>

\* the orders whose status is not "paid"
UnpaidOrders == {i \in 1..Len(orders) : orders[i].status # "paid"}

\* rows is a list of the newest of the orders ids, newest first, cut at the
\* dashboard's limit
NewestOf(rows, ids) ==
    /\ Listed(rows) \subseteq ids
    /\ NewestFirstNoRepeat(rows)
    /\ Len(rows) = IF Cardinality(ids) < OpenOrdersLimit
                   THEN Cardinality(ids) ELSE OpenOrdersLimit
    /\ \A i \in ids \ Listed(rows) :
           \A k \in 1..Len(rows) : orders[i].created_at <= orders[rows[k]].created_at

\* C12, as amended: the admin overview lists the newest orders whose status
\* is not "paid", newest first, at most 10 of them; a paid order is never on
\* the list.
C12_OverviewListsNewestUnpaid ==
    /\ \A rows \in admin_open_orders : NewestOf(rows, UnpaidOrders)
    /\ (response.view = "admin_dashboard" /\ response.data # None)
           => /\ NewestOf(response.data[1].open_orders, UnpaidOrders)
              /\ \A i \in Listed(response.data[1].open_orders) :
                     orders[i].status # "paid"

\* C12, as claimed: the admin overview lists the newest orders of any
\* status, newest first, at most 10 of them, so that a paid order is on the
\* list whenever it is among the 10 most recently created orders.
C12_OverviewListsNewestOfAnyStatus ==
    (response.view = "admin_dashboard" /\ response.data # None)
        => NewestOf(response.data[1].open_orders, 1..Len(orders))

\* the newest order is paid: the overview leaves it out and shows the 10
\* older orders, the oldest among them
C12_Witness ==
    /\ response.view = "admin_dashboard"
    /\ response.data # None
    /\ orders[Len(orders)].status = "paid"
    /\ Len(response.data[1].open_orders) = OpenOrdersLimit
    /\ Len(orders) \notin Listed(response.data[1].open_orders)
    /\ 1 \in Listed(response.data[1].open_orders)

\* the label of an item's section: its category, or the fallback label
EffectiveLabel(item) ==
    IF menu[item].category = None THEN FallbackLabel ELSE menu[item].category[1]

\* the items of the sections, one section after the other
RECURSIVE SectionItems(_)
SectionItems(sections) ==
    IF sections = <<>> THEN <<>>
    ELSE Head(sections).items \o SectionItems(Tail(sections))

\* the sections are the maximal runs of menu_items with one label
MaximalRuns(sections, menu_items) ==
    /\ SectionItems(sections) = menu_items
    /\ \A k \in 1..Len(sections) :
           /\ sections[k].items # <<>>
           /\ \A n \in 1..Len(sections[k].items) :
                  EffectiveLabel(sections[k].items[n]) = sections[k].name
    /\ \A k \in 1..(Len(sections) - 1) : sections[k].name # sections[k + 1].name

\* every order the ids can be listed in
RECURSIVE Orderings(_)
Orderings(ids) ==
    IF ids = {} THEN {<<>>}
    ELSE UNION {{<<i>> \o rest : rest \in Orderings(ids \ {i})} : i \in ids}

\* C13: for every sequence of the available items, and for the sorted one
\* the table's page shows, the sections are exactly the maximal runs of
\* consecutive items with the same effective label, in input order, and
\* their items one after the other are the input sequence.
C13_SectionsAreMaximalRuns ==
    /\ \A menu_items \in Orderings(AvailableIds) :
           MaximalRuns(menu_sections(menu_items, <<>>, 1), menu_items)
    /\ (response.view = "table_view" /\ response.data # None)
           => MaximalRuns(response.data[1].menu_sections, AvailableByCategoryName)

\* the page shows three sections of which the first and the last have the
\* fallback label: an item without a category, and an item whose category
\* is that label's text, with another category sorted between them
C13_Witness ==
    /\ response.view = "table_view"
    /\ response.data # None
    /\ Len(response.data[1].menu_sections) = 3
    /\ response.data[1].menu_sections[1].name = FallbackLabel
    /\ response.data[1].menu_sections[3].name = FallbackLabel

\* C14: any two distinct sections of the table's page have different
\* anchors.
C14_AnchorsAreDistinct ==
    (response.view = "table_view" /\ response.data # None)
        => \A k, n \in 1..Len(response.data[1].menu_sections) :
               k # n => response.data[1].menu_sections[k].anchor
                            # response.data[1].menu_sections[n].anchor

\* the orders as they are after the flag of order id is set to flag at the
\* current time, and nothing else is changed
WithFlag(id, flag) ==
    [i \in 1..Len(orders) |->
         IF i # id THEN orders[i]
         ELSE [table_id |-> orders[i].table_id,
               status |-> orders[i].status,
               total_amount |-> orders[i].total_amount,
               created_at |-> orders[i].created_at,
               updated_at |-> now,
               requested_assistance |-> flag,
               created_by |-> orders[i].created_by,
               paid_at |-> orders[i].paid_at,
               payment_method |-> orders[i].payment_method]]

\* C15: on an order in any status, a call for the staff succeeds and sets
\* requested_assistance, an acknowledgement succeeds and clears it, whatever
\* the flag was; each sets updated_at to the current time and leaves the
\* order's other fields, the other orders and the order items as they were.
C15_AssistanceChangesOnlyTheFlag ==
    \A id \in 1..Len(orders) :
        /\ ENABLED CustomerCallStaff(<<"T", "1">>, id)
        /\ ~ENABLED (/\ CustomerCallStaff(<<"T", "1">>, id)
                     /\ ~(/\ orders' = WithFlag(id, TRUE)
                          /\ order_items' = order_items
                          /\ response'.code = 302))
        /\ ENABLED StaffAcknowledge(Staff, id)
        /\ ~ENABLED (/\ StaffAcknowledge(Staff, id)
                     /\ ~(/\ orders' = WithFlag(id, FALSE)
                          /\ order_items' = order_items
                          /\ response'.code = 302))

\* a paid order has just called the staff, after its payment
C15_Witness ==
    /\ response.view = "customer_call_staff"
    /\ response.code = 302
    /\ \E i \in 1..Len(orders) :
           /\ orders[i].status = "paid"
           /\ orders[i].requested_assistance
           /\ orders[i].updated_at > orders[i].paid_at[1]

\* C16: along every step, no order's updated_at decreases, and every order's
\* updated_at is at or after its created_at.
C16_UpdatedAtNeverGoesBack ==
    [][\A i \in 1..Len(orders') :
          /\ orders'[i].updated_at >= orders'[i].created_at
          /\ i <= Len(orders) => orders'[i].updated_at >= orders[i].updated_at]_vars

\* the order a step has added is pending, unflagged and unpaid, is bound to
\* the table and the creating user, and has one order item for each pair of
\* the selection, with the pair's quantity and the item's price on the menu
CreatedFrom(table_id, created_by, items) ==
    /\ orders'[Len(orders')].status = "pending"
    /\ orders'[Len(orders')].requested_assistance = FALSE
    /\ orders'[Len(orders')].paid_at = None
    /\ orders'[Len(orders')].payment_method = None
    /\ orders'[Len(orders')].table_id = table_id
    /\ orders'[Len(orders')].created_by = created_by
    /\ Len(AddedItems) = Cardinality(Selection(items))
    /\ {<<AddedItems[r].order_id, AddedItems[r].menu_item_id,
          AddedItems[r].quantity, AddedItems[r].price>> :
            r \in 1..Len(AddedItems)}
           = {<<Len(orders'), p[1], p[2], menu[p[1]].price>> : p \in Selection(items)}

\* C19: every successful create adds an order that is pending, with
\* requested_assistance false and paid_at and payment_method None, bound to
\* the submitted table, with exactly one order item per selected (item,
\* quantity) pair at the item's current price; created_by is the acting
\* admin or staff user for a staff create and None for a customer's.
C19_CreateFillsTheOrder ==
    [][/\ \A actor \in {Admin, Staff}, d \in Elapsed :
              (/\ response'.view = "staff_new_order"
               /\ Len(orders') = Len(orders) + 1
               /\ StaffNewOrder(actor, ClockOrderForm, d))
              => CreatedFrom(3, actor, ClockOrderForm.items)
       /\ \A d \in Elapsed :
              (/\ response'.view = "table_view"
               /\ Len(orders') = Len(orders) + 1
               /\ TableViewPost(<<"t", "2">>, (3 :> <<"+", "2">>), d))
              => CreatedFrom(2, None, (3 :> <<"+", "2">>))
       /\ Len(orders') = Len(orders) + 1
              => /\ response'.view \in {"staff_new_order", "table_view"}
                 /\ response'.code = 302]_vars

\* the admin has created an order for the VIP table after item 1 got its
\* new price, and a customer of table 2 has created one
C19_Witness ==
    /\ Len(orders) = 2
    /\ orders[1].created_by = None
    /\ orders[1].table_id = 2
    /\ orders[2].created_by = Admin
    /\ orders[2].table_id = 3
    /\ \E r \in 1..Len(order_items) :
           /\ order_items[r].order_id = 2
           /\ order_items[r].menu_item_id = 1
           /\ order_items[r].price = 45000
    /\ response.view = "staff_new_order"

\* C17: a delete request for a table that an order of any status refers to
\* is answered and leaves the tables as they are; and in every reachable
\* state every order refers to a table that exists.
C17_ReferencedTableIsKept ==
    /\ \A table_id \in DOMAIN tables :
           TableOrders(table_id) # {}
               => /\ ENABLED AdminTableDelete(Admin, table_id)
                  /\ ~ENABLED (/\ AdminTableDelete(Admin, table_id)
                               /\ ~(/\ tables' = tables
                                    /\ response'.flash = "table has orders"))
    /\ \A i \in 1..Len(orders) : orders[i].table_id \in DOMAIN tables

\* the delete of a table whose only order is paid has just been refused,
\* after another table was deleted and a new one added and ordered for
C17_Witness ==
    /\ response.view = "admin_table_delete"
    /\ response.flash = "table has orders"
    /\ 2 \notin DOMAIN tables
    /\ 4 \in DOMAIN tables
    /\ Len(orders) = 2
    /\ orders[1].table_id = 4
    /\ orders[1].status = "paid"
    /\ orders[2].table_id = 4

\* request r commits a status of the pipeline in this step
CommitsStatus(r) ==
    /\ sessions[r] # None
    /\ sessions'[r] = None
    /\ sessions[r][1].form.status # None
    /\ sessions[r][1].form.status[1] \in Pipeline

\* what the transition of request r gives the order when it runs alone on
\* the order as it is stored now
Alone(r) ==
    update_status(orders[sessions[r][1].order_id],
                  sessions[r][1].form.status[1],
                  sessions[r][1].form.payment_method, now, now)

\* C18: when a status request commits, whatever other requests have loaded
\* or committed in the meantime, the order's stored status, paid_at and
\* payment_method are those the request's transition gives on its own; so
\* paid_at and payment_method are set only when the stored status is "paid".
C18_LastWriteWins ==
    [][\A r \in 1..MaxRequests :
          CommitsStatus(r)
              => /\ orders'[sessions[r][1].order_id].status = Alone(r).status
                 /\ orders'[sessions[r][1].order_id].paid_at = Alone(r).paid_at
                 /\ orders'[sessions[r][1].order_id].payment_method
                        = Alone(r).payment_method
                 /\ \A i \in 1..Len(orders') :
                        (orders'[i].paid_at # None \/ orders'[i].payment_method # None)
                            => orders'[i].status = "paid"]_vars


\* the columns of an order that no request assigns once the row is stored
Identity(order) ==
    [table_id |-> order.table_id,
     created_at |-> order.created_at,
     created_by |-> order.created_by]

\* C21: in every reachable state every order's status is one of the five
\* pipeline values, whatever status the forms carried ("cancelled" and
\* values outside the pipeline among them); and no step deletes an order:
\* every order stored before a step is stored after it under the same id,
\* for the same table, with the same creation time and creator.
C21_StatusInPipelineAndOrdersKept ==
    /\ [](\A id \in 1..Len(orders) : orders[id].status \in Pipeline)
    /\ [][/\ Len(orders') >= Len(orders)
          /\ \A id \in 1..Len(orders) :
                 Identity(orders'[id]) = Identity(orders[id])]_vars

\* orders are stored, the first of them paid and the second served; a menu
\* item that an order holds and a table have been deleted; and the last
\* request, a status change, was turned down for its status value
C21_Witness ==
    /\ Len(orders) >= 2
    /\ orders[1].status = "paid"
    /\ orders[2].status = "served"
    /\ \E r \in 1..Len(order_items) :
           order_items[r].menu_item_id \notin DOMAIN menu
    /\ 3 \notin DOMAIN tables
    /\ response = Answer("staff_update_status", 302, "invalid status")

\* the codes of CustomerCodes, written in capitals
InCapitals ==
    (<<"t", "1">> :> <<"T", "1">>) @@ (<<"T", "2">> :> <<"T", "2">>) @@
    (<<"V", "i", "p">> :> <<"V", "I", "P">>) @@ (<<"x">> :> <<"X">>)

\* the tables whose code is the given code in capitals and that order id
\* belongs to: none, or one
TableOfBoth(code, id) ==
    {t \in DOMAIN tables :
        /\ tables[t].code = InCapitals[code]
        /\ id \in 1..Len(orders)
        /\ orders[id].table_id = t}

\* C22: a customer's call for the staff and a customer's look at the order
\* summary, addressed by a table code and an order id, act on the order if
\* the order belongs to the table that has the code in capitals: the call
\* sets the order's flag and updated_at, the summary shows that order of
\* that table.  Otherwise (no table has the code, no order has the id, or
\* the order is another table's) each ends as not found and changes no
\* order.  The summary changes no order in either case.
C22_CustomerRequestsKeepToTheirTable ==
    \A code \in CustomerCodes, id \in 1..(MaxOrders + 1) :
        /\ ENABLED CustomerCallStaff(code, id)
        /\ ~ENABLED (/\ CustomerCallStaff(code, id)
                     /\ ~(IF TableOfBoth(code, id) # {}
                          THEN /\ response'.code = 302
                               /\ orders' = WithFlag(id, TRUE)
                          ELSE /\ response'.code = 404
                               /\ orders' = orders))
        /\ ENABLED CustomerOrderSummary(code, id)
        /\ ~ENABLED (/\ CustomerOrderSummary(code, id)
                     /\ ~(/\ orders' = orders
                          /\ IF TableOfBoth(code, id) # {}
                             THEN /\ response'.code = 200
                                  /\ response'.data[1].order = id
                                  /\ {response'.data[1].table} = TableOfBoth(code, id)
                             ELSE /\ response'.code = 404
                                  /\ response'.data = None))

\* two tables have an order each; the first order has called the staff and
\* the second has not; and the last request, a call for the staff, ended
\* as not found
C22_Witness ==
    /\ Len(orders) = 2
    /\ orders[1].table_id # orders[2].table_id
    /\ orders[1].requested_assistance
    /\ ~orders[2].requested_assistance
    /\ response = Answer("customer_call_staff", 404, "")

=============================================================================
